---- MODULE Spec2Model ----
(***************************************************************************)
(* react-textfit: the TextFit component's fitting engine                   *)
(* (src/src/Textfit.tsx), the task sequencer (src/src/utils/series.ts)     *)
(* and the conditional repeater (src/unnamed/part_001, utils/whilst).      *)
(*                                                                         *)
(* Host model.  this.setState(update, callback) queues the update; the     *)
(* host (React) later commits every queued update in order and then runs   *)
(* the callbacks of the committed updates in order.  Handlers run to       *)
(* completion; other handlers (a window resize, an unmount) may run        *)
(* between a setState call and the commit that applies it.  The queued     *)
(* updates of an unmounted component are discarded by the host.            *)
(*                                                                         *)
(* Layout model.  The wrapper's scrollWidth and scrollHeight are functions *)
(* of the committed font size (variables scrollWidth, scrollHeight, fixed  *)
(* along a behaviour); the container's inner width and height (elWidth,    *)
(* elHeight) change with window resizes.                                   *)
(***************************************************************************)
EXTENDS Integers, Sequences, FiniteSets, TLC

(* ------------------------------ bounds -------------------------------- *)

\* Font sizes of the configurations of Spec: 1 <= min <= max <= MaxSize.
MaxSize == 2

\* Font sizes of the configurations of SeqSpec: 1 <= min <= max <= SeqMaxSize.
SeqMaxSize == 3

\* Number of lodash uniqueId() values handed out (fit runs and the teardown).
MaxPid == 2

\* Length of the task lists given to series() in SeriesSpec.
MaxTasks == 3

\* Number of times test() returns true in a call of whilst() in WhilstSpec.
MaxIter == 3

\* Number of iterator calls a loop or a trampoline keeps on the stack, plus one.
StackBound == 2

(* ----------------------- values of the program ------------------------ *)

\* state.fontSize before any size was applied (fontSize: undefined).
Undefined == -2

\* The not-a-number result of innerWidth / innerHeight.
NaN == -1

\* defaultProps.min and defaultProps.max.
DefaultMin == 1
DefaultMax == 100

\* A positive inner width / height of the container, in pixels.
BoxSize == 5

Modes == {"single", "multi"}

\* v || d on numbers: 0 and NaN are falsy.
OrDefault(v, d) == IF v = 0 \/ v = NaN THEN d ELSE v

\* a <= b on numbers: every comparison with NaN is false.
Leq(a, b) == a # NaN /\ b # NaN /\ a <= b

IsNaN(a) == a = NaN

MathMin(a, b) == IF a <= b THEN a ELSE b
MathMax(a, b) == IF a >= b THEN a ELSE b

\* Mutant of ParseIntHalf: the quotient is rounded up.
ParseIntHalfUp(low, high) == (low + high + 1) \div 2

\* parseInt(((low + high) / 2).toString(), 10): the quotient cut at the point.
\* low + high is never negative here, so the cut is the floor.
ParseIntHalf(low, high) == (low + high) \div 2

\* -1: temporary bugfix, will be refactored soon
assertElementFitsWidth(elScrollWidth, width) == elScrollWidth - 1 <= width

assertElementFitsHeight(elScrollHeight, height) == elScrollHeight - 1 <= height

(* ------------------------------ state --------------------------------- *)

VARIABLES
    props,          \* this.props: [min, max, mode, forceSingleModeWidth]
    state,          \* this.state: [fontSize, ready]
    thisPid,        \* this.pid (0 is the initial '')
    idCounter,      \* lodash uniqueId's counter
    runs,           \* the closures of the process() calls that passed the checks, by pid
    pending,        \* setState calls queued and not yet committed
    timers,         \* setTimeout(end, 0) calls of series() not yet fired
    lifecycle,      \* "constructed", "mounted" (refs attached), "unmounted"
    elWidth,        \* innerWidth(this._parent)
    elHeight,       \* innerHeight(this._parent)
    scrollWidth,    \* this._child.scrollWidth, by committed font size
    scrollHeight,   \* this._child.scrollHeight, by committed font size
    onReadyCalls,   \* the calls of props.onReady so far, with the run that made each
    warnings,       \* the console.warn messages logged so far
    seq,            \* one call of series(tasks, cb) on its own (SeriesSpec)
    rep             \* one call of whilst(test, iterator, callback) on its own (WhilstSpec)

vars == <<props, state, thisPid, idCounter, runs, pending, timers, lifecycle,
          elWidth, elHeight, scrollWidth, scrollHeight, onReadyCalls, warnings, seq,
          rep>>

(* ----------------------- the host's setState queue -------------------- *)

\* The handlers below are operators on the record w of what a handler can
\* change: [state, thisPid, idCounter, runs, pending, timers, onReadyCalls,
\* warnings].

\* this.setState({fontSize: size}, cb): queued until the host commits.
SetFontSize(w, size, cb, pid) ==
    [w EXCEPT !.pending = Append(@, [key |-> "fontSize", size |-> size,
                                     flag |-> FALSE, cb |-> cb, run |-> pid])]

\* Mutant of SetReady: process() does not clear ready.
SetReadyNeverCleared(w, flag, cb, pid) ==
    IF flag
    THEN [w EXCEPT !.pending = Append(@, [key |-> "ready", size |-> Undefined,
                                          flag |-> flag, cb |-> cb, run |-> pid])]
    ELSE w

\* this.setState({ready: flag}, cb)
SetReady(w, flag, cb, pid) ==
    [w EXCEPT !.pending = Append(@, [key |-> "ready", size |-> Undefined,
                                     flag |-> flag, cb |-> cb, run |-> pid])]

\* The state after one queued update is merged into it.
ApplyUpdate(st, u) ==
    IF u.key = "fontSize" THEN [st EXCEPT !.fontSize = u.size]
    ELSE [st EXCEPT !.ready = u.flag]

\* Mutant of ApplyUpdates: the queued updates are merged last to first, so
\* that an earlier call wins over a later one.
RECURSIVE ApplyUpdatesReversed(_, _)
ApplyUpdatesReversed(st, us) ==
    IF us = <<>> THEN st
    ELSE ApplyUpdate(ApplyUpdatesReversed(st, Tail(us)), Head(us))

RECURSIVE ApplyUpdates(_, _)
ApplyUpdates(st, us) ==
    IF us = <<>> THEN st ELSE ApplyUpdates(ApplyUpdate(st, Head(us)), Tail(us))

(* ------------------------- series and whilst -------------------------- *)

\* series(): results = [], current = 0, isSync = true
SeriesStart(nTasks) ==
    [results |-> <<>>, current |-> 0, isSync |-> TRUE, nTasks |-> nTasks]

\* each(err, result): results.push(result); ++current
SeriesEach(s, result) ==
    [s EXCEPT !.results = Append(@, result), !.current = @ + 1]

\* Mutant of SeriesFinished: an error does not stop the list.
SeriesFinishedIgnoresErr(s, err) == s.current >= s.nTasks

\* if (++current >= tasks.length || err) done(err); else tasks[current](each)
SeriesFinished(s, err) == s.current >= s.nTasks \/ err

\* Mutant of DoneDefers: end() is always called at once.
DoneNeverDefers(s) == FALSE

\* done(err): if (isSync) setTimeout(end, 0); else end()
DoneDefers(s) == s.isSync

\* whilst(test, iterator, callback): what is called once test() is known.
WhilstEnter(testResult) == IF testResult THEN "iterator" ELSE "callback"

\* Mutant of WhilstNext: an error passed to next is not looked at.
WhilstNextIgnoresErr(err, testResult) ==
    IF testResult THEN "iterator" ELSE "callback"

\* next(err): callback(err), or iterator(next) while test() holds, or callback(null)
WhilstNext(err, testResult) ==
    IF err THEN "callbackErr"
    ELSE IF testResult THEN "iterator" ELSE "callback"

\* F at the value of v. Every handler below takes the record it works on
\* by value: the record is computed once, before the handler's body runs.
ByValue(v, F(_)) == CHOOSE r \in {F(x) : x \in {v}} : TRUE

(* --------------------------- TextFit.process -------------------------- *)

\* Mutant of ShouldCancelProcess: a run never sees itself superseded.
ShouldCancelProcessNever(w, pid) == FALSE

\* const shouldCancelProcess = () => pid !== this.pid
ShouldCancelProcess(w, pid) == pid # w.thisPid

\* testPrimary(): the height test in multi mode, the width test in single mode,
\* on the wrapper as laid out at the committed font size.
TestPrimary(w, pid) ==
    LET r == w.runs[pid] IN
    IF r.mode = "multi"
    THEN assertElementFitsHeight(scrollHeight[w.state.fontSize], r.originalHeight)
    ELSE assertElementFitsWidth(scrollWidth[w.state.fontSize], r.originalWidth)

TestSecondary(w, pid) ==
    LET r == w.runs[pid] IN
    IF r.mode = "multi"
    THEN assertElementFitsWidth(scrollWidth[w.state.fontSize], r.originalWidth)
    ELSE assertElementFitsHeight(scrollHeight[w.state.fontSize], r.originalHeight)

\* History of a run: a fit test it evaluated.
Tested(w, pid, axis, pass) ==
    [w EXCEPT !.runs[pid].tested =
        Append(@, [axis |-> axis, size |-> w.state.fontSize, pass |-> pass])]

\* History of a run: a size it handed to setState.
Applied(w, pid, phase, size) ==
    [w EXCEPT !.runs[pid].applied = Append(@, [phase |-> phase, size |-> size])]

\* Mutant of FinalSize: the limits are not enforced.
FinalSizeUnclamped(low, high, min, max) == MathMin(low, high)

\* Step 3's value: min(low, high), raised to min || 1, cut to max || 100, floored at 0.
FinalSize(low, high, min, max) ==
    MathMax(MathMin(MathMax(MathMin(low, high), OrDefault(min, 1)),
                    OrDefault(max, 100)), 0)

\* (err) => { if (err || shouldCancelProcess()) return;
\*            this.setState({ready: true}, () => onReady?.(mid)) }
\* outcome is history: how the run's terminal callback left it.
End(w0, pid, err) ==
    ByValue(w0, LAMBDA w :
        IF err \/ ShouldCancelProcess(w, pid)
        THEN [w EXCEPT !.runs[pid].outcome = "cancelled"]
        ELSE SetReady([w EXCEPT !.runs[pid].outcome = "finalized"], TRUE, "ready", pid))

\* () => onReady?.(mid!)
\* current and ready are history: this.pid and state.ready at the call.
CbReady(w0, pid) ==
    ByValue(w0, LAMBDA w :
        [w EXCEPT !.onReadyCalls =
            Append(@, [run |-> pid, fontSize |-> w.runs[pid].mid,
                       current |-> w.thisPid, ready |-> w.state.ready])])

Done(w0, pid, err) ==
    ByValue(w0, LAMBDA w :
        IF DoneDefers(w.runs[pid].series)
        THEN [w EXCEPT !.timers = Append(@, [run |-> pid, err |-> err])]
        ELSE End(w, pid, err))

RECURSIVE Each(_, _, _)
RECURSIVE Next1(_, _, _)
RECURSIVE Next2(_, _, _)

\* Step 3: limits.
Step3(w0, pid) ==
    ByValue(w0, LAMBDA w :
        LET r  == w.runs[pid]
            m  == FinalSize(r.low, r.high, r.min, r.max)
            w1 == [w EXCEPT !.runs[pid].mid = m]
        IN  IF ShouldCancelProcess(w1, pid) THEN Each(w1, pid, TRUE)
            ELSE SetFontSize(Applied(w1, pid, 3, m), m, "step3", pid))

\* Mutant of Cb3: the callback of the last application does not continue.
Cb3Dropped(w, pid) == w

\* this.setState({fontSize: mid}, () => stepCallback(null))
Cb3(w0, pid) ==
    ByValue(w0, LAMBDA w :
        Each(w, pid, FALSE))

\* Step 2's iterator.
Iter2(w0, pid) ==
    ByValue(w0, LAMBDA w :
        IF ShouldCancelProcess(w, pid) THEN Next2(w, pid, TRUE)
        ELSE LET r  == w.runs[pid]
                 m  == ParseIntHalf(r.low, r.high)
                 w1 == [w EXCEPT !.runs[pid].mid = m]
             IN  SetFontSize(Applied(w1, pid, 2, m), m, "step2", pid))

\* Step 2's setState callback.
Cb2(w0, pid) ==
    ByValue(w0, LAMBDA w :
        IF pid # w.thisPid THEN Next2(w, pid, TRUE)
        ELSE LET pass == TestSecondary(w, pid)
                 w1   == Tested(w, pid, "secondary", pass)
                 r    == w1.runs[pid]
                 w2   == IF pass THEN [w1 EXCEPT !.runs[pid].low = r.mid + 1]
                         ELSE [w1 EXCEPT !.runs[pid].high = r.mid - 1]
             IN  Next2(w2, pid, FALSE))

\* whilst's next for step 2, with test () => low < high
Next2(w0, pid, err) ==
    ByValue(w0, LAMBDA w :
        LET r == w.runs[pid]
            d == WhilstNext(err, r.low < r.high)
        IN  CASE d = "callbackErr" -> Each(w, pid, TRUE)
              [] d = "iterator"    -> Iter2(w, pid)
              [] OTHER             -> Each(w, pid, FALSE))

\* Mutant of Step2: the single-mode skip is missing.
Step2NoSkip(w, pid) ==
    LET r    == w.runs[pid]
        pass == TestSecondary(w, pid)
        w1   == Tested(w, pid, "secondary", pass)
    IN  IF pass THEN Each(w1, pid, FALSE)
        ELSE LET w2 == [w1 EXCEPT !.runs[pid].low = OrDefault(r.min, 1),
                                  !.runs[pid].high = r.mid]
                 r2 == w2.runs[pid]
             IN  IF WhilstEnter(r2.low < r2.high) = "iterator"
                 THEN Iter2(w2, pid)
                 ELSE Each(w2, pid, FALSE)

\* Step 2: the secondary axis, unless skipped.
Step2(w0, pid) ==
    ByValue(w0, LAMBDA w :
        LET r == w.runs[pid] IN
        IF r.mode = "single" /\ r.forceSingleModeWidth THEN Each(w, pid, FALSE)
        ELSE LET pass == TestSecondary(w, pid)
                 w1   == Tested(w, pid, "secondary", pass)
             IN  IF pass THEN Each(w1, pid, FALSE)
                 ELSE LET w2 == [w1 EXCEPT !.runs[pid].low = OrDefault(r.min, 1),
                                           !.runs[pid].high = r.mid]
                          r2 == w2.runs[pid]
                      IN  IF WhilstEnter(r2.low < r2.high) = "iterator"
                          THEN Iter2(w2, pid)
                          ELSE Each(w2, pid, FALSE))

\* Step 1's iterator.
Iter1(w0, pid) ==
    ByValue(w0, LAMBDA w :
        IF ShouldCancelProcess(w, pid) THEN Next1(w, pid, TRUE)
        ELSE LET r  == w.runs[pid]
                 m  == ParseIntHalf(r.low, r.high)
                 w1 == [w EXCEPT !.runs[pid].mid = m]
             IN  SetFontSize(Applied(w1, pid, 1, m), m, "step1", pid))

\* Step 1's setState callback.
Cb1(w0, pid) ==
    ByValue(w0, LAMBDA w :
        IF ShouldCancelProcess(w, pid) THEN Next1(w, pid, TRUE)
        ELSE LET pass == TestPrimary(w, pid)
                 w1   == Tested(w, pid, "primary", pass)
                 r    == w1.runs[pid]
                 w2   == IF pass THEN [w1 EXCEPT !.runs[pid].low = r.mid + 1]
                         ELSE [w1 EXCEPT !.runs[pid].high = r.mid - 1]
             IN  Next1(w2, pid, FALSE))

\* Mutant of Next1: the loop test is strict, as in step 2.
Next1Strict(w, pid, err) ==
    LET r == w.runs[pid]
        d == WhilstNext(err, r.low < r.high)
    IN  CASE d = "callbackErr" -> Each(w, pid, TRUE)
          [] d = "iterator"    -> Iter1(w, pid)
          [] OTHER             -> Each(w, pid, FALSE)

\* whilst's next for step 1, with test () => low <= high
Next1(w0, pid, err) ==
    ByValue(w0, LAMBDA w :
        LET r == w.runs[pid]
            d == WhilstNext(err, r.low <= r.high)
        IN  CASE d = "callbackErr" -> Each(w, pid, TRUE)
              [] d = "iterator"    -> Iter1(w, pid)
              [] OTHER             -> Each(w, pid, FALSE))

\* Step 1: the primary axis.
Step1(w0, pid) ==
    ByValue(w0, LAMBDA w :
        LET r == w.runs[pid] IN
        IF WhilstEnter(r.low <= r.high) = "iterator" THEN Iter1(w, pid)
        ELSE Each(w, pid, FALSE))

\* series' each for the three steps of process.
Each(w0, pid, err) ==
    ByValue(w0, LAMBDA w :
        LET s  == SeriesEach(w.runs[pid].series, Undefined)
            w1 == [w EXCEPT !.runs[pid].series = s]
        IN  IF SeriesFinished(s, err) THEN Done(w1, pid, err)
            ELSE IF s.current = 1 THEN Step2(w1, pid)
            ELSE Step3(w1, pid))

\* Mutant of BaselineWarning: a zero extent is let through.
BaselineWarningNegativeOnly(width, height) ==
    IF (height # NaN /\ height < 0) \/ IsNaN(height) THEN "height"
    ELSE IF (width # NaN /\ width < 0) \/ IsNaN(width) THEN "width"
    ELSE ""

\* The baseline check of process: "" when the search may start.
BaselineWarning(width, height) ==
    IF Leq(height, 0) \/ IsNaN(height) THEN "height"
    ELSE IF Leq(width, 0) \/ IsNaN(width) THEN "width"
    ELSE ""

\* Mutant of InitialRange: low and high live on the instance and are not
\* reset, so a run starts from the range its predecessor ended with.
InitialRangeKept(w, p) ==
    IF w.thisPid \in DOMAIN w.runs
    THEN [low |-> w.runs[w.thisPid].low, high |-> w.runs[w.thisPid].high]
    ELSE [low |-> OrDefault(p.min, 1), high |-> OrDefault(p.max, 100)]

\* let low = min || 1; let high = max || 100: locals of the call.
InitialRange(w, p) ==
    [low |-> OrDefault(p.min, 1), high |-> OrDefault(p.max, 100)]

\* process(), called with props p while the container measures width x height.
Process(w0, p, attached, width, height) ==
    ByValue(w0, LAMBDA w :
        IF ~attached THEN w
        ELSE IF BaselineWarning(width, height) # ""
        THEN [w EXCEPT !.warnings = @ \cup {BaselineWarning(width, height)}]
        ELSE LET pid == w.idCounter + 1
                 run == [min |-> p.min, max |-> p.max, mode |-> p.mode,
                         forceSingleModeWidth |-> p.forceSingleModeWidth,
                         originalWidth |-> width, originalHeight |-> height,
                         low |-> InitialRange(w, p).low, high |-> InitialRange(w, p).high,
                         mid |-> Undefined,
                         series |-> SeriesStart(3),
                         applied |-> <<>>, tested |-> <<>>, outcome |-> "running"]
                 w1  == [w EXCEPT !.idCounter = pid, !.thisPid = pid,
                                  !.runs = (pid :> run) @@ @]
                 w2  == SetReady(w1, FALSE, "none", pid)
                 w3  == Step1(w2, pid)
             IN  [w3 EXCEPT !.runs[pid].series.isSync = FALSE])

\* componentDidUpdate(prevProps)
ComponentDidUpdate(w0, p, prevProps, attached, width, height) ==
    ByValue(w0, LAMBDA w :
        IF ~w.state.ready THEN w
        ELSE IF p = prevProps THEN w
        ELSE Process(w, p, attached, width, height))

\* The callback of one committed update.
RunCallback(w0, u) ==
    ByValue(w0, LAMBDA w :
        CASE u.cb = "step1" -> Cb1(w, u.run)
          [] u.cb = "step2" -> Cb2(w, u.run)
          [] u.cb = "step3" -> Cb3(w, u.run)
          [] u.cb = "ready" -> CbReady(w, u.run)
          [] OTHER          -> w)

RECURSIVE RunCallbacks(_, _)
RunCallbacks(w0, us) ==
    ByValue(w0, LAMBDA w :
        IF us = <<>> THEN w ELSE RunCallbacks(RunCallback(w, Head(us)), Tail(us)))

\* A commit of the host with props p: every queued update is applied, then
\* componentDidUpdate runs, then the callbacks of the applied updates, in order.
CommitWith(w0, p, prevProps, attached, width, height) ==
    ByValue(w0, LAMBDA w :
        LET us == w.pending
            w1 == [w EXCEPT !.state = ApplyUpdates(@, us), !.pending = <<>>]
            w2 == ComponentDidUpdate(w1, p, prevProps, attached, width, height)
        IN  RunCallbacks(w2, us))

(* ------------------- series() on its own (SeriesSpec) ----------------- *)

\* A task either calls its callback before it returns (sync) or later, and
\* reports an error or none; its result is its place in the list.
TaskKinds == [sync : BOOLEAN, err : BOOLEAN]

\* seq before series() is called with the list tasks.
SeqBefore(tasks) ==
    [tasks |-> tasks, s |-> SeriesStart(Len(tasks)), phase |-> "idle",
     waiting |-> FALSE, timers |-> <<>>, started |-> <<>>, cbCalls |-> <<>>]

SeqIdle == SeqBefore(<<>>)

\* end(): if (cb) cb(err, results).  inCall is history: whether series() is
\* still on the stack.
RunEnd(q, err, inCall) ==
    [q EXCEPT !.cbCalls = Append(@, [err |-> err, results |-> q.s.results,
                                     inCall |-> inCall])]

RunDone(q, err, inCall) ==
    IF DoneDefers(q.s) THEN [q EXCEPT !.timers = Append(@, [err |-> err])]
    ELSE RunEnd(q, err, inCall)

RECURSIVE RunEach(_, _, _, _)

\* tasks[i](each): a sync task calls each before it returns, another keeps it.
RunTask(q, i, inCall) ==
    LET q1 == [q EXCEPT !.started = Append(@, i)] IN
    IF q.tasks[i + 1].sync THEN RunEach(q1, q.tasks[i + 1].err, i, inCall)
    ELSE [q1 EXCEPT !.waiting = TRUE]

RunEach(q, err, result, inCall) ==
    LET q1 == [q EXCEPT !.s = SeriesEach(@, result), !.waiting = FALSE] IN
    IF SeriesFinished(q1.s, err) THEN RunDone(q1, err, inCall)
    ELSE RunTask(q1, q1.s.current, inCall)

\* series(tasks, cb), up to its return.
RunSeries(q) ==
    LET q1 == IF Len(q.tasks) > 0 THEN RunTask(q, 0, TRUE)
              ELSE RunDone(q, FALSE, TRUE)
    IN  [q1 EXCEPT !.s.isSync = FALSE, !.phase = "returned"]

(* ------------------- whilst() on its own (WhilstSpec) ----------------- *)

\* What an iterator passes to its callback: no error, or one of two errors.
NoErr == "null"
Errs == {"e1", "e2"}

\* A call of the iterator either calls its callback before it returns (sync)
\* or later, with err.
IterKinds == [sync : BOOLEAN, err : {NoErr} \cup Errs]

\* rep before whilst() is called.  test() returns true as many times as iters
\* is long; events is history: the calls made so far, in order; maxDepth is
\* history: the largest number of iterator calls that were on the stack at
\* the same time.
RepBefore(iters) ==
    [iters |-> iters, tests |-> 0, works |-> 0, waiting |-> FALSE,
     phase |-> "idle", events |-> <<>>, maxDepth |-> 0]

RepIdle == RepBefore(<<>>)

\* test(): true while iterations are left.
RepTestResult(r) == r.tests < Len(r.iters)

RepTest(r) ==
    [r EXCEPT !.tests = @ + 1,
              !.events = Append(@, [e |-> "test", v |-> RepTestResult(r), err |-> NoErr])]

\* callback(err)
RepCallback(r, err) ==
    [r EXCEPT !.events = Append(@, [e |-> "callback", v |-> FALSE, err |-> err])]

RECURSIVE RepNext(_, _, _)

\* iterator(next), called with depth calls of the iterator on the stack.
RepIterator(r, depth) ==
    LET k  == r.works + 1
        r1 == [r EXCEPT !.works = k,
                        !.events = Append(@, [e |-> "iterator", v |-> FALSE, err |-> NoErr]),
                        !.maxDepth = MathMax(@, depth + 1)]
    IN  IF r.iters[k].sync THEN RepNext(r1, r.iters[k].err, depth + 1)
        ELSE [r1 EXCEPT !.waiting = TRUE]

\* next(err), called with depth calls of the iterator on the stack; test() is
\* evaluated only when err is falsy.
RepNext(r, err, depth) ==
    LET r1 == [r EXCEPT !.waiting = FALSE,
                        !.events = Append(@, [e |-> "next", v |-> FALSE, err |-> err])]
        d  == WhilstNext(err # NoErr, RepTestResult(r1))
    IN  CASE d = "callbackErr" -> RepCallback(r1, err)
          [] d = "iterator"    -> RepIterator(RepTest(r1), depth)
          [] OTHER             -> RepCallback(RepTest(r1), NoErr)

\* whilst(test, iterator, callback), up to its return.
RepWhilst(r) ==
    LET r1 == RepTest(r)
        r2 == IF WhilstEnter(RepTestResult(r)) = "iterator" THEN RepIterator(r1, 0)
              ELSE RepCallback(r1, NoErr)
    IN  [r2 EXCEPT !.phase = "returned"]

(* ------------------------------ actions ------------------------------- *)

World ==
    [state |-> state, thisPid |-> thisPid, idCounter |-> idCounter, runs |-> runs,
     pending |-> pending, timers |-> timers, onReadyCalls |-> onReadyCalls,
     warnings |-> warnings]

Install(w0) ==
    \E w \in {w0} :
        /\ state' = w.state
        /\ thisPid' = w.thisPid
        /\ idCounter' = w.idCounter
        /\ runs' = w.runs
        /\ pending' = w.pending
        /\ timers' = w.timers
        /\ onReadyCalls' = w.onReadyCalls
        /\ warnings' = w.warnings

Sizes == 1..MaxSize

Configs ==
    {c \in [min : Sizes, max : Sizes, mode : Modes, forceSingleModeWidth : BOOLEAN] :
        c.min <= c.max}

DimValues == {NaN, 0, BoxSize}

\* A scroll extent that passes the fit test against BoxSize only by the
\* one-pixel tolerance, and one that overflows.
ScrollValues == {BoxSize + 1, BoxSize + 2}

Init ==
    /\ props \in Configs
    /\ state = [fontSize |-> Undefined, ready |-> FALSE]
    /\ thisPid = 0
    /\ idCounter = 0
    /\ runs = <<>>
    /\ pending = <<>>
    /\ timers = <<>>
    /\ lifecycle = "constructed"
    /\ elWidth \in DimValues
    /\ elHeight \in DimValues
    /\ scrollWidth \in [Sizes -> ScrollValues]
    /\ scrollHeight \in [Sizes -> ScrollValues]
    /\ onReadyCalls = <<>>
    /\ warnings = {}
    /\ seq = SeqIdle
    /\ rep = RepIdle

\* componentDidMount(): the refs are attached, process() is called.
Mount ==
    /\ lifecycle = "constructed"
    /\ idCounter < MaxPid
    /\ lifecycle' = "mounted"
    /\ Install(Process(World, props, TRUE, elWidth, elHeight))
    /\ UNCHANGED <<props, elWidth, elHeight, scrollWidth, scrollHeight, seq, rep>>

\* A window resize leaves the container width x height; handleWindowResize
\* (the throttled process) runs.
WindowResize(width, height) ==
    /\ lifecycle = "mounted"
    /\ idCounter < MaxPid
    /\ elWidth' = width
    /\ elHeight' = height
    /\ Install(Process(World, props, TRUE, width, height))
    /\ UNCHANGED <<props, lifecycle, scrollWidth, scrollHeight, seq, rep>>

\* The host commits the queued updates.
Commit ==
    /\ lifecycle = "mounted"
    /\ pending # <<>>
    /\ Install(CommitWith(World, props, props, TRUE, elWidth, elHeight))
    /\ UNCHANGED <<props, lifecycle, elWidth, elHeight, scrollWidth, scrollHeight, seq, rep>>

\* componentWillUnmount(): this.pid = uniqueId(); the host detaches the refs
\* and drops the queued updates.
Unmount ==
    /\ lifecycle = "mounted"
    /\ idCounter < MaxPid
    /\ lifecycle' = "unmounted"
    /\ thisPid' = idCounter + 1
    /\ idCounter' = idCounter + 1
    /\ pending' = <<>>
    /\ UNCHANGED <<props, state, runs, timers, elWidth, elHeight, scrollWidth,
                   scrollHeight, onReadyCalls, warnings, seq, rep>>

\* The trailing call of the throttled handler after the unmount: process()
\* finds no elements.
TrailingResize ==
    /\ lifecycle = "unmounted"
    /\ Install(Process(World, props, FALSE, elWidth, elHeight))
    /\ UNCHANGED <<props, lifecycle, elWidth, elHeight, scrollWidth, scrollHeight, seq, rep>>

Next ==
    \/ Mount
    \/ \E width \in DimValues, height \in DimValues : WindowResize(width, height)
    \/ Commit
    \/ Unmount
    \/ TrailingResize

Spec == Init /\ [][Next]_vars

(* ---------------- fits one after the other (SeqSpec) ------------------ *)

SeqSizes == 1..SeqMaxSize

SeqConfigs ==
    {c \in [min : SeqSizes, max : SeqSizes, mode : Modes, forceSingleModeWidth : BOOLEAN] :
        c.min <= c.max}

\* defaultProps' min and max, in every mode.
DefaultConfigs ==
    [min : {DefaultMin}, max : {DefaultMax}, mode : Modes,
     forceSingleModeWidth : BOOLEAN]

\* A layout whose extent passes the fit test exactly for the sizes <= limit.
ThresholdScroll(limit) ==
    [s \in DefaultMin..DefaultMax |-> IF s <= limit THEN BoxSize + 1 ELSE BoxSize + 2]

\* The container has a valid baseline; the layout is any function of the size
\* for the small configurations and a threshold for the default ones.
SeqInit ==
    /\ \/ /\ props \in SeqConfigs
          /\ scrollWidth \in [SeqSizes -> ScrollValues]
          /\ scrollHeight \in [SeqSizes -> ScrollValues]
       \/ /\ props \in DefaultConfigs
          /\ scrollWidth \in {ThresholdScroll(l) : l \in 0..DefaultMax}
          /\ scrollHeight \in {ThresholdScroll(l) : l \in {0, 40, DefaultMax}}
    /\ state = [fontSize |-> Undefined, ready |-> FALSE]
    /\ thisPid = 0
    /\ idCounter = 0
    /\ runs = <<>>
    /\ pending = <<>>
    /\ timers = <<>>
    /\ lifecycle = "constructed"
    /\ elWidth = BoxSize
    /\ elHeight = BoxSize
    /\ onReadyCalls = <<>>
    /\ warnings = {}
    /\ seq = SeqIdle
    /\ rep = RepIdle

\* A resize event that leaves the container as it is, once the fit before it
\* is complete: the fit is run again.
Refit ==
    /\ state.ready
    /\ pending = <<>>
    /\ WindowResize(elWidth, elHeight)

SeqNext ==
    \/ Mount
    \/ Commit
    \/ Refit

SeqSpec == SeqInit /\ [][SeqNext]_vars

FairSpec == Spec /\ WF_vars(Commit)

(* ------------------------------- PropsSpec ---------------------------- *)

\* The owner renders the component with other props: the host commits what
\* is queued and calls componentDidUpdate with the props of before.
PropsChange ==
    /\ lifecycle = "mounted"
    /\ idCounter < MaxPid
    /\ \E c \in Configs :
          /\ c # props
          /\ props' = c
          /\ Install(CommitWith(World, c, props, TRUE, elWidth, elHeight))
    /\ UNCHANGED <<lifecycle, elWidth, elHeight, scrollWidth, scrollHeight, seq, rep>>

\* The container has a valid baseline, which does not change.
PropsInit ==
    /\ Init
    /\ elWidth = BoxSize
    /\ elHeight = BoxSize

PropsNext ==
    \/ Mount
    \/ Commit
    \/ PropsChange

PropsSpec == PropsInit /\ [][PropsNext]_vars

(* ------------------------------ SeriesSpec ---------------------------- *)

TaskLists == UNION {[1..n -> TaskKinds] : n \in 0..MaxTasks}

SeriesInit ==
    /\ seq \in {SeqBefore(t) : t \in TaskLists}
    /\ props = [min |-> DefaultMin, max |-> DefaultMax, mode |-> "multi",
                forceSingleModeWidth |-> TRUE]
    /\ state = [fontSize |-> Undefined, ready |-> FALSE]
    /\ thisPid = 0
    /\ idCounter = 0
    /\ runs = <<>>
    /\ pending = <<>>
    /\ timers = <<>>
    /\ lifecycle = "constructed"
    /\ elWidth = BoxSize
    /\ elHeight = BoxSize
    /\ scrollWidth = ThresholdScroll(DefaultMax)
    /\ scrollHeight = ThresholdScroll(DefaultMax)
    /\ onReadyCalls = <<>>
    /\ warnings = {}
    /\ rep = RepIdle

Fit == <<props, state, thisPid, idCounter, runs, pending, timers, lifecycle,
         elWidth, elHeight, scrollWidth, scrollHeight, onReadyCalls, warnings>>

\* series(tasks, cb) is called and returns.
SeriesCall ==
    /\ seq.phase = "idle"
    /\ seq' = RunSeries(seq)
    /\ UNCHANGED <<Fit, rep>>

\* The task that kept its callback calls it.
TaskCompletes ==
    /\ seq.waiting
    /\ seq' = RunEach(seq, seq.tasks[seq.s.current + 1].err, seq.s.current, FALSE)
    /\ UNCHANGED <<Fit, rep>>

\* A setTimeout(end, 0) fires.
TimerFires ==
    /\ seq.timers # <<>>
    /\ seq' = RunEnd([seq EXCEPT !.timers = Tail(@)], Head(seq.timers).err, FALSE)
    /\ UNCHANGED <<Fit, rep>>

SeriesNext ==
    \/ SeriesCall
    \/ TaskCompletes
    \/ TimerFires

SeriesSpec == SeriesInit /\ [][SeriesNext]_vars

\* Every step that kept its callback reports, and the host fires its timers.
FairSeriesSpec == SeriesSpec /\ WF_vars(TaskCompletes) /\ WF_vars(TimerFires)

(* ------------------------------ WhilstSpec ---------------------------- *)

IterLists == UNION {[1..n -> IterKinds] : n \in 0..MaxIter}

WhilstInit ==
    /\ rep \in {RepBefore(t) : t \in IterLists}
    /\ seq = SeqIdle
    /\ props = [min |-> DefaultMin, max |-> DefaultMax, mode |-> "multi",
                forceSingleModeWidth |-> TRUE]
    /\ state = [fontSize |-> Undefined, ready |-> FALSE]
    /\ thisPid = 0
    /\ idCounter = 0
    /\ runs = <<>>
    /\ pending = <<>>
    /\ timers = <<>>
    /\ lifecycle = "constructed"
    /\ elWidth = BoxSize
    /\ elHeight = BoxSize
    /\ scrollWidth = ThresholdScroll(DefaultMax)
    /\ scrollHeight = ThresholdScroll(DefaultMax)
    /\ onReadyCalls = <<>>
    /\ warnings = {}

\* whilst(test, iterator, callback) is called and returns.
WhilstCall ==
    /\ rep.phase = "idle"
    /\ rep' = RepWhilst(rep)
    /\ UNCHANGED <<Fit, seq>>

\* The iterator call that kept its callback calls it, from the host.
IteratorCompletes ==
    /\ rep.waiting
    /\ rep' = RepNext(rep, rep.iters[rep.works].err, 0)
    /\ UNCHANGED <<Fit, seq>>

WhilstNextStep ==
    \/ WhilstCall
    \/ IteratorCompletes

WhilstSpec == WhilstInit /\ [][WhilstNextStep]_vars

\* Every iterator call that kept its callback calls it.
FairWhilstSpec == WhilstSpec /\ WF_vars(IteratorCompletes)

TypeOK ==
    /\ state.ready \in BOOLEAN
    /\ thisPid \in 0..MaxPid
    /\ timers = <<>>

(* ------------------------------ claims -------------------------------- *)

\* The fit tests of a run at a font size, whatever size is committed.
FitsWidthAt(r, size) == scrollWidth[size] - 1 <= r.originalWidth
FitsHeightAt(r, size) == scrollHeight[size] - 1 <= r.originalHeight
PrimaryAt(r, size) ==
    IF r.mode = "multi" THEN FitsHeightAt(r, size) ELSE FitsWidthAt(r, size)
SecondaryAt(r, size) ==
    IF r.mode = "multi" THEN FitsWidthAt(r, size) ELSE FitsHeightAt(r, size)

\* A baseline extent the engine may work with.
PositiveFinite(x) == x # NaN /\ x > 0

\* A step in which process() is called with both elements attached and
\* nothing else happens.
AttachedProcessCall ==
    Mount \/ \E width \in DimValues, height \in DimValues : WindowResize(width, height)

\* Run pid has a size application queued whose callback is a checkpoint.
AwaitsCheckpoint(pid) ==
    \E i \in DOMAIN pending :
        pending[i].run = pid /\ pending[i].cb \in {"step1", "step2", "step3"}

\* C1: for every configuration 1 <= min <= max and every outcome of the fit
\* tests, the size passed to onReady and the size the finalize step applies
\* lie in [min, max] and are >= 0.
C1_FinalSizeWithinLimits ==
    /\ \A i \in DOMAIN onReadyCalls :
          LET c == onReadyCalls[i]
              r == runs[c.run]
          IN  r.min <= c.fontSize /\ c.fontSize <= r.max /\ c.fontSize >= 0
    /\ \A p \in DOMAIN runs : \A i \in DOMAIN runs[p].applied :
          LET a == runs[p].applied[i] IN
          a.phase = 3 => runs[p].min <= a.size /\ a.size <= runs[p].max /\ a.size >= 0

\* C1's case: onReady was called by a run whose search ended below min, so
\* that the limits of step 3 acted.
C1_Witness ==
    \E i \in DOMAIN onReadyCalls :
        LET r == runs[onReadyCalls[i].run] IN
        MathMin(r.low, r.high) < r.min /\ r.min < r.max

\* C3: no run fires onReady once a newer fit request has started or the
\* component was torn down: at every onReady call the calling run's token is
\* the current one.
C3_OnlyCurrentRunFiresOnReady ==
    \A i \in DOMAIN onReadyCalls : onReadyCalls[i].run = onReadyCalls[i].current

C5_InvalidBaselineStartsNothing ==
    /\ [](\A p \in DOMAIN runs :
            PositiveFinite(runs[p].originalWidth) /\ PositiveFinite(runs[p].originalHeight))
    /\ [](\A i \in DOMAIN pending : pending[i].run \in DOMAIN runs)
    /\ [](\A i \in DOMAIN onReadyCalls : onReadyCalls[i].run \in DOMAIN runs)
    /\ [][AttachedProcessCall /\ ~(PositiveFinite(elWidth') /\ PositiveFinite(elHeight')) =>
            /\ state' = state
            /\ pending' = pending
            /\ runs' = runs
            /\ thisPid' = thisPid
            /\ onReadyCalls' = onReadyCalls
            /\ warnings' # {}
            /\ warnings' \in {warnings \cup {"height"}, warnings \cup {"width"}}]_vars

\* C5's case: a request with a zero or NaN baseline was made while an earlier
\* run existed.
C5_Witness ==
    /\ warnings # {}
    /\ runs # <<>>
    /\ ~(PositiveFinite(elWidth) /\ PositiveFinite(elHeight))

\* C7: in single mode with forceSingleModeWidth, a run never evaluates the
\* secondary test and never applies a phase-2 size.
C7_SecondaryNeverRunsWhenForced ==
    \A p \in DOMAIN runs :
        runs[p].mode = "single" /\ runs[p].forceSingleModeWidth =>
            /\ \A i \in DOMAIN runs[p].tested : runs[p].tested[i].axis # "secondary"
            /\ \A i \in DOMAIN runs[p].applied : runs[p].applied[i].phase # 2

\* C7's case: a forced single-mode run was finalized on a size at which the
\* height test fails.
C7_Witness ==
    \E p \in DOMAIN runs :
        /\ runs[p].mode = "single" /\ runs[p].forceSingleModeWidth
        /\ runs[p].outcome = "finalized"
        /\ ~FitsHeightAt(runs[p], runs[p].mid)

\* The fit tests are monotone in the font size: a size that passes lets every
\* smaller size pass.
MonotoneWidth(r) ==
    \A s \in DOMAIN scrollWidth, t \in DOMAIN scrollWidth :
        s <= t /\ FitsWidthAt(r, t) => FitsWidthAt(r, s)
MonotoneHeight(r) ==
    \A s \in DOMAIN scrollHeight, t \in DOMAIN scrollHeight :
        s <= t /\ FitsHeightAt(r, t) => FitsHeightAt(r, s)

\* The largest size of [min, max] that passes the width test, min when none does.
LargestWidthFit(r) ==
    LET ok == {s \in r.min..r.max : FitsWidthAt(r, s)} IN
    IF ok = {} THEN r.min ELSE CHOOSE s \in ok : \A t \in ok : t <= s

\* C2: with monotone fit tests that pass at min, a run whose secondary axis is
\* not skipped by configuration finalizes on a size that passes both tests;
\* with min 1, max 100, multi mode, height passing up to 40 and width up to 44
\* the size is 40.
C2_FinalSizeFitsBothAxes ==
    \A i \in DOMAIN onReadyCalls :
        LET c == onReadyCalls[i]
            r == runs[c.run]
        IN  /\ MonotoneWidth(r) /\ MonotoneHeight(r)
            /\ PrimaryAt(r, r.min) /\ SecondaryAt(r, r.min)
            /\ ~(r.mode = "single" /\ r.forceSingleModeWidth)
            => /\ PrimaryAt(r, c.fontSize) /\ SecondaryAt(r, c.fontSize)
               /\ (/\ r.min = DefaultMin /\ r.max = DefaultMax /\ r.mode = "multi"
                   /\ scrollHeight = ThresholdScroll(40)
                   /\ scrollWidth = ThresholdScroll(44)) => c.fontSize = 40

\* C6: in single mode with forceSingleModeWidth and a monotone width test, a
\* run that is not cancelled finalizes on the largest size of [min, max] that
\* passes the width test (min when none passes), whatever the height test
\* says; with min 1, max 100 and width passing up to 30 the size is 30.
C6_SingleForcedFindsLargestWidthFit ==
    \A i \in DOMAIN onReadyCalls :
        LET c == onReadyCalls[i]
            r == runs[c.run]
        IN  r.mode = "single" /\ r.forceSingleModeWidth /\ MonotoneWidth(r) =>
               /\ c.fontSize = LargestWidthFit(r)
               /\ Len(r.applied) > 0 /\ r.applied[Len(r.applied)].size = c.fontSize
               /\ (/\ r.min = DefaultMin /\ r.max = DefaultMax
                   /\ scrollWidth = ThresholdScroll(30)) => c.fontSize = 30

\* C6's case: the default limits, width passing up to 30, height overflowing
\* at 30, and the run reported 30.
C6_Witness ==
    \E i \in DOMAIN onReadyCalls :
        LET c == onReadyCalls[i]
            r == runs[c.run]
        IN  /\ r.mode = "single" /\ r.forceSingleModeWidth
            /\ r.min = DefaultMin /\ r.max = DefaultMax
            /\ scrollWidth = ThresholdScroll(30)
            /\ ~FitsHeightAt(r, 30)
            /\ c.fontSize = 30

\* Two runs had the same configuration and the same baseline.
SameFit(r1, r2) ==
    /\ r1.min = r2.min /\ r1.max = r2.max /\ r1.mode = r2.mode
    /\ r1.forceSingleModeWidth = r2.forceSingleModeWidth
    /\ r1.originalWidth = r2.originalWidth /\ r1.originalHeight = r2.originalHeight

\* C9: fits run one after the other with the same configuration and the same
\* layout report the same size, whatever state the earlier fit left behind.
C9_RefitIsIdempotent ==
    \A i \in DOMAIN onReadyCalls, j \in DOMAIN onReadyCalls :
        SameFit(runs[onReadyCalls[i].run], runs[onReadyCalls[j].run]) =>
            onReadyCalls[i].fontSize = onReadyCalls[j].fontSize

\* C9's case: a second fit completed after a first one that had gone through
\* phase 2 and left a size other than the one a fresh component starts with.
C9_Witness ==
    /\ Len(onReadyCalls) >= 2
    /\ onReadyCalls[1].run # onReadyCalls[2].run
    /\ \E k \in DOMAIN runs[onReadyCalls[1].run].applied :
          runs[onReadyCalls[1].run].applied[k].phase = 2
    /\ onReadyCalls[1].fontSize > runs[onReadyCalls[1].run].min

\* The onReady calls made by run p.
CallsOf(p) == {i \in DOMAIN onReadyCalls : onReadyCalls[i].run = p}

\* C8: a run that passed the baseline check and is not superseded or torn
\* down, with every queued update eventually committed, eventually calls
\* onReady; it calls it once, and a call made while the run is current is made
\* with ready set and with the size the run applied last, in step 3.
C8_RunCompletesOnce ==
    /\ [](\A p \in DOMAIN runs : Cardinality(CallsOf(p)) <= 1)
    /\ [](\A i \in DOMAIN onReadyCalls :
            LET c == onReadyCalls[i]
                r == runs[c.run]
            IN  c.current = c.run =>
                   /\ c.ready
                   /\ r.outcome = "finalized"
                   /\ r.applied[Len(r.applied)] = [phase |-> 3, size |-> c.fontSize])
    /\ \A p \in 1..MaxPid :
          (p \in DOMAIN runs) ~> (thisPid # p \/ CallsOf(p) # {})

\* C8's case: a run went through phase 2, stayed current and called onReady;
\* the state shows its size and ready.
C8_Witness ==
    \E i \in DOMAIN onReadyCalls :
        LET c == onReadyCalls[i]
            r == runs[c.run]
        IN  /\ thisPid = c.run
            /\ state = [fontSize |-> c.fontSize, ready |-> TRUE]
            /\ \E k \in DOMAIN r.applied : r.applied[k].phase = 2

\* C10: the terminal callback of series() is never invoked while series() is
\* still on the stack, also when every task completes synchronously and when
\* the task list is empty; for the empty list it gets no error.
C10_TerminalCallbackDeferred ==
    /\ \A i \in DOMAIN seq.cbCalls : ~seq.cbCalls[i].inCall
    /\ seq.tasks = <<>> => \A i \in DOMAIN seq.cbCalls : ~seq.cbCalls[i].err
    /\ (seq.phase = "returned" /\ (\A i \in DOMAIN seq.tasks : seq.tasks[i].sync)
        /\ seq.cbCalls = <<>>) => Len(seq.timers) = 1

\* C10's case: every task of a non-empty list completed synchronously and the
\* terminal callback has run, from the timer.
C10_Witness ==
    /\ Len(seq.tasks) = MaxTasks
    /\ \A i \in DOMAIN seq.tasks : seq.tasks[i].sync /\ ~seq.tasks[i].err
    /\ Len(seq.cbCalls) = 1
    /\ Len(seq.cbCalls[1].results) = MaxTasks

\* C10's other case: the empty list.
C10_WitnessEmpty ==
    /\ seq.tasks = <<>>
    /\ Len(seq.cbCalls) = 1

\* The steps of seq that have reported so far (places in the list, from 1).
Reported == 1..seq.s.current

\* C11: with steps that each report once, series() starts the steps in list
\* order, starts a step only after every step before it reported without
\* error (so none after an error), and calls the terminal callback once:
\* with the error of the failed step, or with none after the last step.
C11_StepsInOrderOneTerminalCall ==
    /\ [](\A k \in DOMAIN seq.started :
            /\ seq.started[k] = k - 1
            /\ \A j \in 1..(k - 1) : j \in Reported /\ ~seq.tasks[j].err)
    /\ [](Len(seq.cbCalls) <= 1)
    /\ [](\A i \in DOMAIN seq.cbCalls :
            /\ seq.cbCalls[i].err = (\E j \in Reported : seq.tasks[j].err)
            /\ ~seq.cbCalls[i].err => seq.s.current = Len(seq.tasks)
            /\ Len(seq.started) = seq.s.current)
    /\ (seq.phase = "returned") ~> (Len(seq.cbCalls) = 1)

\* C11's case: the second of three steps failed, the third never started and
\* the terminal callback got the error.
C11_Witness ==
    /\ Len(seq.tasks) = MaxTasks
    /\ ~seq.tasks[1].err /\ seq.tasks[2].err
    /\ seq.started = <<0, 1>>
    /\ Len(seq.cbCalls) = 1 /\ seq.cbCalls[1].err

\* The calls made by the whilst() call of rep so far, in order.
Ev == rep.events
IsEv(i, kind) == i \in DOMAIN Ev /\ Ev[i].e = kind

\* C12: whilst(test, iterator, callback) with a test that is false at once
\* calls callback(null) and never the iterator; otherwise the iterator is
\* called once after each test that returned true, test is evaluated again
\* only after next was called without error, the first error passed to next
\* goes to callback and ends the loop, and callback is called once, after
\* which neither test nor the iterator is called.
C12_WhilstProtocol ==
    /\ [](rep.phase = "returned" /\ rep.iters = <<>> =>
            Ev = << [e |-> "test", v |-> FALSE, err |-> NoErr],
                    [e |-> "callback", v |-> FALSE, err |-> NoErr] >>)
    /\ [](\A i \in DOMAIN Ev :
            /\ Ev[i].e = "test" /\ Ev[i].v => IsEv(i + 1, "iterator")
            /\ Ev[i].e = "test" /\ ~Ev[i].v =>
                  IsEv(i + 1, "callback") /\ Ev[i + 1].err = NoErr
            /\ Ev[i].e = "iterator" => IsEv(i - 1, "test") /\ Ev[i - 1].v
            /\ Ev[i].e = "test" /\ i > 1 =>
                  IsEv(i - 1, "next") /\ Ev[i - 1].err = NoErr
            /\ Ev[i].e = "next" /\ Ev[i].err # NoErr =>
                  IsEv(i + 1, "callback") /\ Ev[i + 1].err = Ev[i].err
            /\ Ev[i].e = "callback" => i = Len(Ev))
    /\ (rep.phase = "returned") ~> IsEv(Len(Ev), "callback")

\* C12's case: two iterations went through, the second one called next later,
\* and the third one passed an error, which callback got.
C12_Witness ==
    /\ Len(rep.iters) = MaxIter
    /\ ~rep.iters[2].sync
    /\ rep.iters[MaxIter].err = "e2"
    /\ rep.works = MaxIter
    /\ IsEv(Len(Ev), "callback") /\ Ev[Len(Ev)].err = "e2"

\* C13: when every iterator call calls next before it returns, the number of
\* iterator calls on the stack at the same time stays below a bound that
\* does not grow with the number of iterations.
C13_StackDepthBounded ==
    (\A i \in DOMAIN rep.iters : rep.iters[i].sync) => rep.maxDepth <= StackBound

\* What the code does instead: with synchronous iterator calls every
\* iterator call so far is still on the stack when the next one is made.
C13_DepthIsIterationCount ==
    (\A i \in DOMAIN rep.iters : rep.iters[i].sync) => rep.maxDepth = rep.works

\* The fit test of a run's secondary axis is monotone in the font size.
MonotoneSecondary(r) == IF r.mode = "multi" THEN MonotoneWidth(r) ELSE MonotoneHeight(r)
MonotonePrimary(r) == IF r.mode = "multi" THEN MonotoneHeight(r) ELSE MonotoneWidth(r)

\* The sizes a run applied in a phase, in order.
AppliedIn(r, phase) ==
    SelectSeq(r.applied, LAMBDA a : a.phase = phase)

\* mid as step 1 left it: the size step 1 applied last.
Phase1Mid(r) == AppliedIn(r, 1)[Len(AppliedIn(r, 1))].size

\* C14: when the loop of step 2 ran with a monotone secondary test, the value
\* min(low, high) it hands to step 3 is the largest size of [min, mid of
\* step 1] that passes the secondary test (min when none does): it passes
\* the test when some size of the range does, and the next larger size fails.
C14_Phase2FindsLargestSecondaryFit ==
    \A p \in DOMAIN runs :
        LET r     == runs[p]
            v     == MathMin(r.low, r.high)
            range == r.min..Phase1Mid(r)
            ok    == {s \in range : SecondaryAt(r, s)}
        IN  /\ AppliedIn(r, 2) # <<>>
            /\ AppliedIn(r, 3) # <<>>
            /\ MonotoneSecondary(r)
            => /\ ok # {} => v \in ok /\ (v + 1 \in range => ~SecondaryAt(r, v + 1))
               /\ ok = {} => v = r.min

\* The largest size of [min, max] that passes the primary test of a run.
LargestPrimaryFit(r) ==
    LET ok == {s \in r.min..r.max : PrimaryAt(r, s)} IN
    CHOOSE s \in ok : \A t \in ok : t <= s

\* Step 2 of a run evaluated its test.
Step2Tested(r) == \E k \in DOMAIN r.tested : r.tested[k].axis = "secondary"

\* C15: when step 2 is not skipped by configuration (and the primary test is
\* monotone and passes at min, so that step 1 has a boundary to find), the
\* loop of step 2 is entered only if the secondary test fails at the largest
\* size of [min, max] that passes the primary test; if it passes there,
\* step 2 applies no size and that size is the one step 3 applies.
C15_Phase2OnlyWhenBoundaryFails ==
    \A p \in DOMAIN runs :
        LET r == runs[p] IN
        /\ ~(r.mode = "single" /\ r.forceSingleModeWidth)
        /\ MonotonePrimary(r) /\ PrimaryAt(r, r.min)
        /\ Step2Tested(r)
        => LET b == LargestPrimaryFit(r) IN
           /\ AppliedIn(r, 2) # <<>> => ~SecondaryAt(r, b)
           /\ SecondaryAt(r, b) /\ AppliedIn(r, 3) # <<>> => AppliedIn(r, 3)[1].size = b

\* What C16 says of one primary test of run p: t is the test, r the run
\* before the step and r2 the run after it.
Phase1Iteration(r, r2, t) ==
    LET m  == t.size
        nl == IF t.pass THEN m + 1 ELSE r.low
        nh == IF t.pass THEN r.high ELSE m - 1
    IN  /\ m = r.mid
        /\ 2 * m <= r.low + r.high /\ r.low + r.high <= 2 * m + 1
        /\ r.low <= m /\ m <= r.high
        /\ nh - nl < r.high - r.low
        /\ IF r2.series.current = 0
           THEN /\ r2.low = nl /\ r2.high = nh /\ nl <= nh
                /\ Len(AppliedIn(r2, 1)) = Len(AppliedIn(r, 1)) + 1
           ELSE nl > nh

\* C16: in step 1 every tested mid is floor((low + high) / 2) and lies in
\* [low, high]; a passing test sets low = mid + 1 and a failing one
\* high = mid - 1, so high - low decreases at every iteration, the loop goes
\* on while low <= high and the step ends with low > high, after at most
\* max - min + 1 applications.
C16_Phase1IsBinarySearch ==
    /\ [][\A p \in DOMAIN runs :
            LET r  == runs[p]
                r2 == runs'[p]
                n  == Len(r.tested)
            IN  Len(r2.tested) > n /\ r2.tested[n + 1].axis = "primary" =>
                    Phase1Iteration(r, r2, r2.tested[n + 1])]_vars
    /\ [](\A p \in DOMAIN runs :
            Len(AppliedIn(runs[p], 1)) <= runs[p].max - runs[p].min + 1)

\* C16's case: a search over 1..100 that needed seven applications has ended.
C16_Witness ==
    \E p \in DOMAIN runs :
        /\ runs[p].min = DefaultMin /\ runs[p].max = DefaultMax
        /\ Len(AppliedIn(runs[p], 1)) = 7
        /\ runs[p].series.current >= 1
        /\ runs[p].outcome = "finalized"

\* The setState calls of run p that are queued.
PendingOf(p) == SelectSeq(pending, LAMBDA u : u.run = p)

\* In this step run p, whose token is stale, applies no size, evaluates no
\* test, leaves its range alone, sets no ready and starts no later step.
StaleRunKeepsOff(p) ==
    /\ runs'[p].applied = runs[p].applied
    /\ runs'[p].tested = runs[p].tested
    /\ runs'[p].low = runs[p].low /\ runs'[p].high = runs[p].high
    /\ Len(SelectSeq(pending', LAMBDA u : u.run = p)) <= Len(PendingOf(p))
    /\ runs'[p].outcome \in {runs[p].outcome, "cancelled"}
    /\ runs'[p].series.current # runs[p].series.current =>
          runs'[p].outcome = "cancelled"

\* The calls of onReady made by run p.
OnReadyCallsOf(p) == SelectSeq(onReadyCalls, LAMBDA c : c.run = p)

\* C17: once this.pid differs from the pid a run captured, the run has no
\* further side effect: it issues no new size application, evaluates no fit
\* test, does not update its range, does not set ready, goes through the
\* error channel of whilst and series to its end without starting a later
\* step, and calls nothing of its owner's.
C17_StaleRunHasNoSideEffects ==
    [][\A p \in DOMAIN runs : thisPid # p =>
          /\ StaleRunKeepsOff(p)
          /\ Len(SelectSeq(onReadyCalls', LAMBDA c : c.run = p))
                = Len(OnReadyCallsOf(p))]_vars

\* The part of C17 that holds: the search of a stale run stops.
StaleRunSearchStops ==
    [][\A p \in DOMAIN runs : thisPid # p => StaleRunKeepsOff(p)]_vars

\* A run that had applied a size was superseded by a run that started a
\* search, and ended cancelled at its next checkpoint.
StaleRunCancelled ==
    \E p \in DOMAIN runs :
        /\ thisPid # p /\ thisPid \in DOMAIN runs
        /\ runs[p].applied # <<>>
        /\ runs[p].outcome = "cancelled"

\* The run of the most recent process() call that passed its checks.
LatestRun == CHOOSE p \in DOMAIN runs : \A q \in DOMAIN runs : q <= p

\* C18 as claimed: ready is true only if the run of the most recent fit
\* request has finalized and neither a fit request nor the teardown came
\* after it, so that its token is still the current one.
C18_ReadyOnlyWhileLatestFitFinal ==
    state.ready =>
        /\ lifecycle = "mounted"
        /\ thisPid \in DOMAIN runs
        /\ runs[thisPid].outcome = "finalized"
        /\ AppliedIn(runs[thisPid], 3) # <<>>

\* C18 as amended: while the component is mounted, ready is true only if the
\* latest run has finalized, having applied its final size, or the
\* setState({ready: false}) of the latest run is still queued.
C18_ReadyOnlyAfterFinalizeOnceCommitted ==
    state.ready /\ lifecycle = "mounted" =>
        /\ runs # <<>>
        /\ \/ /\ runs[LatestRun].outcome = "finalized"
              /\ AppliedIn(runs[LatestRun], 3) # <<>>
              /\ state.fontSize = AppliedIn(runs[LatestRun], 3)[1].size
           \/ \E i \in DOMAIN pending :
                 /\ pending[i].key = "ready" /\ ~pending[i].flag
                 /\ pending[i].run = LatestRun

\* C18's case: a second run has finalized and ready is set again.
C18_Witness ==
    /\ state.ready /\ lifecycle = "mounted"
    /\ pending = <<>>
    /\ thisPid = MaxPid /\ MaxPid \in DOMAIN runs
    /\ runs[MaxPid].outcome = "finalized"

\* The fit tests a run evaluated on an axis, in order.
TestedOn(r, axis) == SelectSeq(r.tested, LAMBDA t : t.axis = axis)

\* C19: a run has at most one size application outstanding; it issues the
\* next candidate only after the test of the one before; and every test it
\* evaluates finds the candidate it applied last as the applied size, also
\* when an application of an earlier run was still queued.
C19_OneCandidateAtATime ==
    \A p \in DOMAIN runs :
        LET r  == runs[p]
            P1 == AppliedIn(r, 1)
            P2 == AppliedIn(r, 2)
            T1 == TestedOn(r, "primary")
            T2 == TestedOn(r, "secondary")
        IN  /\ Len(SelectSeq(PendingOf(p), LAMBDA u : u.key = "fontSize")) <= 1
            /\ Len(P1) - Len(T1) \in {0, 1}
            /\ \A k \in DOMAIN T1 : T1[k].size = P1[k].size
            /\ P2 # <<>> \/ AppliedIn(r, 3) # <<>> => Len(T1) = Len(P1)
            /\ P2 # <<>> => T2 # <<>>
            /\ T2 # <<>> =>
                  /\ Len(T1) = Len(P1)
                  /\ T2[1].size = P1[Len(P1)].size
                  /\ Len(P2) - (Len(T2) - 1) \in {0, 1}
                  /\ \A k \in 2..Len(T2) : T2[k].size = P2[k - 1].size
                  /\ AppliedIn(r, 3) # <<>> => Len(P2) = Len(T2) - 1

\* C19's case: a run was superseded while its second candidate was queued,
\* and the run after it has measured its own first candidate, another size.
C19_Witness ==
    \E p \in DOMAIN runs :
        /\ p # thisPid /\ thisPid \in DOMAIN runs
        /\ Len(AppliedIn(runs[p], 1)) = 2 /\ Len(TestedOn(runs[p], "primary")) = 1
        /\ TestedOn(runs[thisPid], "primary") # <<>>
        /\ TestedOn(runs[thisPid], "primary")[1].size # AppliedIn(runs[p], 1)[2].size

\* The configuration a run captured.
ConfigOf(r) ==
    [min |-> r.min, max |-> r.max, mode |-> r.mode,
     forceSingleModeWidth |-> r.forceSingleModeWidth]

\* Nothing is left to do without a trigger from outside: the fit is reported
\* and no update is queued.
Settled == lifecycle = "mounted" /\ state.ready /\ pending = <<>>

\* C20: when the props change while a run is in flight, a run with the new
\* props is started without another trigger, and the size reported in the
\* end reflects the latest props: once the component has settled, the
\* current run is one that captured the current props, and the size it
\* reported is within their limits.
C20_LatestPropsAreFitted ==
    Settled =>
        /\ thisPid \in DOMAIN runs
        /\ ConfigOf(runs[thisPid]) = props
        /\ LET c == onReadyCalls[Len(onReadyCalls)] IN
           props.min <= c.fontSize /\ c.fontSize <= props.max

\* Where C20 fails: the props went from max 1 to min 2 during a fit, the
\* component has settled and the size reported last is 1.
C20_OldPropsReported ==
    /\ Settled
    /\ props.min = MaxSize
    /\ onReadyCalls # <<>>
    /\ onReadyCalls[Len(onReadyCalls)].fontSize < props.min

====
